---- MODULE Spec2Model ----
(***************************************************************************)
(* The reporting pipeline of covid-19-states.py and covid-19-counties.py:  *)
(* test(opts) reads the observations, derives the daily columns, joins the *)
(* populations, normalizes, resolves the region selection, drops the noise *)
(* rows and prints or plots.  The variable script tells which of the two   *)
(* near-identical scripts runs.                                            *)
(*                                                                         *)
(* Numbers.  A pandas cell that can hold a float is modelled as an exact   *)
(* fraction [n, d] with d > 0, NaN as the fraction with d = 0.  Strings    *)
(* are sequences of one-character strings, so that int(), split(",") and   *)
(* strip() are computed character by character.  A date is its day number. *)
(***************************************************************************)
EXTENDS Integers, Sequences, FiniteSets, TLC

VARIABLES
    script,     \* "states" or "counties": which script runs
    opts,       \* the docopt dictionary: norm, lines, multi, sel, state
    csv,        \* the rows of us-states.csv / us-counties.csv
    pops,       \* the rows get_populations() returns
    pc,         \* position inside test(opts)
    df,         \* the local df of test(opts)
    names,      \* state_list / counties, once the selector has run
    out,        \* what has been printed to standard output
    chart       \* the lines handed to matplotlib (multi mode)

vars == <<script, opts, csv, pops, pc, df, names, out, chart>>

----------------------------------------------------------------------------
(* Bounds of the checked inputs *)

MaxDays == 4
MaxCount == 1
ShortDays == 3
LongDays == 8
MaxLen == 4
RankDays == 2
RankCount == 3

----------------------------------------------------------------------------
(* Exact fractions and NaN *)

RECURSIVE Gcd(_, _)
Gcd(a, b) == IF b = 0 THEN a ELSE Gcd(b, a % b)

\* the fraction n/d, d > 0, in lowest terms
Rat(n, d) ==
    LET g == Gcd(IF n < 0 THEN 0 - n ELSE n, d)
    IN  [n |-> n \div g, d |-> d \div g]
NaN == [n |-> 0, d |-> 0]
IsNaN(x) == x.d = 0
Num(k) == Rat(k, 1)

\* x >= y as pandas/numpy compare floats: False when either side is NaN
NumGe(x, y) == ~IsNaN(x) /\ ~IsNaN(y) /\ x.n * y.d >= y.n * x.d
NumGt(x, y) == ~IsNaN(x) /\ ~IsNaN(y) /\ x.n * y.d > y.n * x.d
NumEq(x, y) == ~IsNaN(x) /\ ~IsNaN(y) /\ x.n * y.d = y.n * x.d
\* the same cell content: both NaN, or the same number
SameCell(x, y) == (IsNaN(x) /\ IsNaN(y)) \/ NumEq(x, y)

NumDiv(x, k) == IF IsNaN(x) THEN NaN ELSE Rat(x.n, x.d * k)
NumMul(x, k) == IF IsNaN(x) THEN NaN ELSE Rat(x.n * k, x.d)

----------------------------------------------------------------------------
(* Characters and strings *)

\* the characters used, in code point order
CharOrder == <<" ", ",", "-", ".", "0", "1", "2", "3", "4", "5", "6", "7",
               "8", "9", "A", "B", "C", "P", "Q">>
Ord(c) == CHOOSE i \in 1..Len(CharOrder) : CharOrder[i] = c
DigitChars == <<"0", "1", "2", "3", "4", "5", "6", "7", "8", "9">>
IsDigit(c) == \E i \in 1..10 : DigitChars[i] = c
DigitValue(c) == (CHOOSE i \in 1..10 : DigitChars[i] = c) - 1

\* str < str of Python: lexicographic by code point
RECURSIVE StrLess(_, _)
StrLess(s, t) ==
    IF t = <<>> THEN FALSE
    ELSE IF s = <<>> THEN TRUE
    ELSE IF Head(s) # Head(t) THEN Ord(Head(s)) < Ord(Head(t))
    ELSE StrLess(Tail(s), Tail(t))

Last(s) == s[Len(s)]

----------------------------------------------------------------------------
(* Loader and Deriver *)

\* the rolling window of the smoothing
Window == 7

\* the order of sort_values(by=['state','county','Date']) (counties) and of
\* sort_values(by=['State','Date']) (states, whose rows carry no parent: state = "")
RowLess(a, b) ==
    IF a.state # b.state THEN StrLess(a.state, b.state)
    ELSE IF a.region # b.region THEN StrLess(a.region, b.region)
    ELSE a.date < b.date

\* sort_values on the rows of the file; (state, region, date) is a key of the file,
\* so the sorted order does not depend on the order of the file
RECURSIVE sort_values(_)
sort_values(rows) ==
    IF rows = {} THEN <<>>
    ELSE LET m == CHOOSE r \in rows : \A q \in rows \ {r} : RowLess(r, q)
         IN  <<m>> \o sort_values(rows \ {m})

\* a column of df by its pandas name
Col(r, column) ==
    CASE column = "total cases"  -> r.total_cases
      [] column = "total deaths" -> r.total_deaths
      [] column = "daily cases"  -> r.daily_cases
      [] column = "daily deaths" -> r.daily_deaths

MetricColumns == {"total cases", "total deaths", "daily cases", "daily deaths"}

\* df.cases.diff().fillna(0).astype(int) over the whole sorted table: row i minus
\* row i-1, whatever region row i-1 belongs to; 0 on the first row of the table
DiffCases(s, i) == IF i = 1 THEN 0 ELSE s[i].cases - s[i - 1].cases
DiffDeaths(s, i) == IF i = 1 THEN 0 ELSE s[i].deaths - s[i - 1].deaths

\* df after the column selection "only keep what I care about"
Derive(rows) ==
    LET s == sort_values(rows)
    IN  [i \in 1..Len(s) |->
            [state        |-> s[i].state,
             Region       |-> s[i].region,
             Date         |-> s[i].date,
             total_cases  |-> Num(s[i].cases),
             total_deaths |-> Num(s[i].deaths),
             daily_cases  |-> Num(DiffCases(s, i)),
             daily_deaths |-> Num(DiffDeaths(s, i)),
             fips         |-> s[i].fips]]

\* the sum of an integer column over rows lo..hi
RECURSIVE SumCol(_, _, _, _)
SumCol(t, lo, hi, column) ==
    IF lo > hi THEN 0 ELSE Col(t[lo], column).n + SumCol(t, lo + 1, hi, column)

\* Series.rolling(window=7).sum().divide(7.0) over the whole table: NaN on the
\* first 6 rows of the table, else the sum of rows i-6..i over 7
Rolling(t, i, column) ==
    IF i < Window THEN NaN ELSE Rat(SumCol(t, i - Window + 1, i, column), Window)

Smoothed(t) ==
    [i \in 1..Len(t) |->
        [t[i] EXCEPT !.daily_cases = Rolling(t, i, "daily cases"),
                     !.daily_deaths = Rolling(t, i, "daily deaths")]]

----------------------------------------------------------------------------
(* Population Joiner and Normalizer *)

\* the join key: the State column (states), the fips column (counties)
KeyOf(sc, r) == IF sc = "states" THEN r.Region ELSE r.fips

\* counties only: df[df['state'] == opts['--state']]
KeepState(sc, o, t) ==
    IF sc = "counties" THEN SelectSeq(t, LAMBDA r : r.state = o.state) ELSE t

RECURSIVE MatchesOf(_, _, _)
MatchesOf(sc, r, p) ==
    IF p = <<>> THEN <<>>
    ELSE (IF Head(p).key = KeyOf(sc, r)
          THEN <<[state |-> r.state, Region |-> r.Region, Date |-> r.Date,
                  total_cases |-> r.total_cases, total_deaths |-> r.total_deaths,
                  daily_cases |-> r.daily_cases, daily_deaths |-> r.daily_deaths,
                  fips |-> r.fips, population |-> Head(p).population]>>
          ELSE <<>>) \o MatchesOf(sc, r, Tail(p))

\* pd.merge(df, pops, on=key): the inner join, in the order of the left rows
RECURSIVE merge(_, _, _)
merge(sc, t, p) ==
    IF t = <<>> THEN <<>>
    ELSE MatchesOf(sc, Head(t), p) \o merge(sc, Tail(t), p)

\* the division without the .mul(100.0)
PercentUnscaled(x, population) == NumDiv(x, population)

\* col.div(df.population).mul(100.0)
Percent(x, population) == NumMul(NumDiv(x, population), 100)

NormalizeRow(r) ==
    [r EXCEPT !.total_cases = Percent(r.total_cases, r.population),
              !.total_deaths = Percent(r.total_deaths, r.population),
              !.daily_cases = Percent(r.daily_cases, r.population),
              !.daily_deaths = Percent(r.daily_deaths, r.population)]

\* the table left as it was joined
Unnormalized(o, t) == t

Normalized(o, t) ==
    IF o.norm THEN [i \in 1..Len(t) |-> NormalizeRow(t[i])] ELSE t

----------------------------------------------------------------------------
(* Selector *)

RECURSIVE LStrip(_)
LStrip(s) == IF s # <<>> /\ Head(s) = " " THEN LStrip(Tail(s)) ELSE s

RECURSIVE RStrip(_)
RStrip(s) ==
    IF s # <<>> /\ Last(s) = " " THEN RStrip(SubSeq(s, 1, Len(s) - 1)) ELSE s

\* str.strip()
strip(s) == RStrip(LStrip(s))

\* str.split(','): cur is the token being read
RECURSIVE SplitFrom(_, _)
SplitFrom(s, cur) ==
    IF s = <<>> THEN <<cur>>
    ELSE IF Head(s) = "," THEN <<cur>> \o SplitFrom(Tail(s), <<>>)
    ELSE SplitFrom(Tail(s), Append(cur, Head(s)))

split(s) == SplitFrom(s, <<>>)

\* the digits int() reads, once the surrounding whitespace and the sign are removed
IntBody(s) ==
    LET t == strip(s)
    IN  IF t # <<>> /\ Head(t) \in {"-", "+"} THEN Tail(t) ELSE t

\* whether int(s) returns instead of raising ValueError (the strings checked hold
\* no "_", which int() also accepts between two digits)
IntParses(s) ==
    IntBody(s) # <<>> /\ \A i \in 1..Len(IntBody(s)) : IsDigit(IntBody(s)[i])

RECURSIVE DigitsValue(_)
DigitsValue(b) ==
    IF b = <<>> THEN 0
    ELSE 10 * DigitsValue(SubSeq(b, 1, Len(b) - 1)) + DigitValue(Last(b))

\* int(s), for a string that parses
IntValue(s) ==
    LET t == strip(s)
    IN  IF Head(t) = "-" THEN 0 - DigitsValue(IntBody(s)) ELSE DigitsValue(IntBody(s))

\* choose_column / choose_series
choose_column(o) ==
    CASE o.multi = "c" -> "daily cases"
      [] o.multi = "d" -> "daily deaths"
      [] o.multi = "C" -> "total cases"
      [] o.multi = "D" -> "total deaths"
      [] OTHER         -> "total cases"

RegionsOf(t) == {t[i].Region : i \in 1..Len(t)}
RowsOf(t, region) == SelectSeq(t, LAMBDA r : r.Region = region)
FirstRowOf(t, region) == CHOOSE i \in 1..Len(t) :
    t[i].Region = region /\ \A j \in 1..(i - 1) : t[j].Region # region

\* the value of the first row of a region once the table is sorted by the column,
\* descending, NaN last: the largest value of the region, NaN when it has none
PeakOf(t, region, column) ==
    LET vals == {Col(t[i], column) : i \in {j \in 1..Len(t) : t[j].Region = region}}
        real == {v \in vals : ~IsNaN(v)}
    IN  IF real = {} THEN NaN
        ELSE CHOOSE v \in real : \A w \in real : NumGe(v, w)

\* whether region a can come before region b in
\* df.sort_values(column, ascending=False).drop_duplicates(region column): the rows
\* are sorted by value, descending; rows of equal value come in an order the sort
\* (quicksort, not stable) does not fix; the NaN rows come last in table order
CanPrecede(t, column, a, b) ==
    LET pa == PeakOf(t, a, column)
        pb == PeakOf(t, b, column)
    IN  IF IsNaN(pa) THEN IsNaN(pb) /\ FirstRowOf(t, a) < FirstRowOf(t, b)
        ELSE IsNaN(pb) \/ NumGe(pa, pb)

\* the region columns df_sorted.State.tolist() can be
SortedDedup(t, column) ==
    LET rs == RegionsOf(t)
        n == Cardinality(rs)
    IN  {q \in [1..n -> rs] :
            /\ \A i, j \in 1..n : i # j => q[i] # q[j]
            /\ \A i, j \in 1..n : i < j => CanPrecede(t, column, q[i], q[j])}

\* list[:k] of Python, k of either sign
SliceTo(q, k) ==
    IF k >= 0 THEN SubSeq(q, 1, IF k < Len(q) THEN k ELSE Len(q))
    ELSE SubSeq(q, 1, IF Len(q) + k > 0 THEN Len(q) + k ELSE 0)

\* the explicit list with the tokens left as split(',') cuts them
ExplicitListUnstripped(s) == split(s)

\* the explicit list: [State.strip() for State in opts['--states'].split(',')]
ExplicitList(s) == [i \in 1..Len(split(s)) |-> strip(split(s)[i])]

\* "if top_number:" -- the string parsed and the number is not 0
TopNumberSet(s) == IntParses(s) /\ IntValue(s) # 0

\* get_state_list / get_county_list: the lists the call can return
get_state_list(o, t, column) ==
    IF TopNumberSet(o.sel)
    THEN {SliceTo(q, IntValue(o.sel)) : q \in SortedDedup(t, column)}
    ELSE {ExplicitList(o.sel)}

\* "filter out small numbers of cases in a day"
NoiseFloor(o) == IF o.norm THEN 0 ELSE 2
FilterNoiseRows(o, t) ==
    SelectSeq(t, LAMBDA r : NumGe(r.daily_cases, Num(NoiseFloor(o))))

----------------------------------------------------------------------------
(* Presenter *)

Abs(k) == IF k < 0 THEN 0 - k ELSE k

RECURSIVE Digits(_)
Digits(k) ==
    IF k < 10 THEN <<DigitChars[k + 1]>>
    ELSE Digits(k \div 10) \o <<DigitChars[(k % 10) + 1]>>

RECURSIVE ZeroPad(_, _)
ZeroPad(s, width) == IF Len(s) >= width THEN s ELSE ZeroPad(<<"0">> \o s, width)

RECURSIVE PadLeft(_, _)
PadLeft(s, width) == IF Len(s) >= width THEN s ELSE PadLeft(<<" ">> \o s, width)

\* the digits of k >= 0 in groups of three
RECURSIVE Grouped(_)
Grouped(k) ==
    IF k < 1000 THEN Digits(k)
    ELSE Grouped(k \div 1000) \o <<",">> \o ZeroPad(Digits(k % 1000), 3)

SignOf(k) == IF k < 0 THEN <<"-">> ELSE <<>>

\* format(k, "8,") for an integer
FormatThousands(k) == PadLeft(SignOf(k) \o Grouped(Abs(k)), 8)

RECURSIVE Pow10(_)
Pow10(p) == IF p = 0 THEN 1 ELSE 10 * Pow10(p - 1)

\* |x| in units of 10^-places, rounded to the nearest, half to even
Rounded(x, places) ==
    LET a == Abs(x.n) * Pow10(places)
        q == a \div x.d
        r == a % x.d
    IN  IF 2 * r > x.d \/ (2 * r = x.d /\ q % 2 = 1) THEN q + 1 ELSE q

\* format(x, "0.2f") / format(x, "0.3f") for a float
FormatFixed(x, places) ==
    IF IsNaN(x) THEN <<"n", "a", "n">>
    ELSE SignOf(x.n) \o Digits(Rounded(x, places) \div Pow10(places)) \o <<".">>
         \o ZeroPad(Digits(Rounded(x, places) % Pow10(places)), places)

\* int(x) for a float: towards zero
Truncated(x) == IF x.n < 0 THEN 0 - (Abs(x.n) \div x.d) ELSE x.n \div x.d

Printed(kind, text) == [kind |-> kind, text |-> text]
Ok(lines) == [ok |-> TRUE, lines |-> lines]
Raised(lines) == [ok |-> FALSE, lines |-> lines]

\* the stats of a region without rows printed as nothing instead of raising
show_state_stats_lenient(o, t, state) ==
    LET df3 == RowsOf(t, strip(state))
    IN  IF df3 = <<>> THEN [ok |-> TRUE, lines |-> <<>>]
        ELSE [ok |-> TRUE,
              lines |-> <<[kind |-> "total cases", text |-> <<>>],
                          [kind |-> "total deaths", text |-> <<>>]>>]

\* show_state_stats / show_county_stats: df3.iloc[-1] raises IndexError on an
\* empty selection
show_state_stats(o, t, state) ==
    LET df3 == RowsOf(t, strip(state))
    IN  IF df3 = <<>> THEN Raised(<<>>)
        ELSE IF o.norm
        THEN Ok(<<Printed("total cases", FormatFixed(Last(df3).total_cases, 2) \o <<" ", "%">>),
                  Printed("total deaths", FormatFixed(Last(df3).total_deaths, 2) \o <<" ", "%">>)>>)
        ELSE Ok(<<Printed("total cases", FormatThousands(Truncated(Last(df3).total_cases))),
                  Printed("total deaths", FormatThousands(Truncated(Last(df3).total_deaths)))>>)

\* display_one_state (covid-19-states.py)
display_one_state(o, t, state) ==
    LET df3 == RowsOf(t, state)
        head == <<Printed("name", state)>>
                \o (IF o.lines THEN <<[kind |-> "table", rows |-> df3]>> ELSE <<>>)
        stats == show_state_stats(o, df3, state)
    IN  [ok |-> stats.ok, lines |-> head \o stats.lines]

\* display_one_county (covid-19-counties.py)
display_one_county(o, t, county) ==
    LET df3 == RowsOf(t, county)
    IN  IF df3 = <<>> THEN Raised(<<>>)
        ELSE LET head == <<Printed("name", county \o <<" ">>
                                   \o FormatThousands(Last(df3).fips))>>
                 stats == show_state_stats(o, df3, county)
             IN  IF o.lines THEN [ok |-> stats.ok, lines |-> head \o stats.lines]
                 ELSE Ok(head)

display_one(sc, o, t, region) ==
    IF sc = "states" THEN display_one_state(o, t, region)
    ELSE display_one_county(o, t, region)

\* "for state in state_list: display_one_state(opts, df, state)", up to the first
\* exception
RECURSIVE DisplayEach(_, _, _, _)
DisplayEach(sc, o, t, list) ==
    IF list = <<>> THEN Ok(<<>>)
    ELSE LET one == display_one(sc, o, t, Head(list))
         IN  IF ~one.ok THEN one
             ELSE LET rest == DisplayEach(sc, o, t, Tail(list))
                  IN  [ok |-> rest.ok, lines |-> one.lines \o rest.lines]

\* the first loop of plot_multi_states / plot_multi_counties
RECURSIVE StatsEach(_, _, _)
StatsEach(o, t, list) ==
    IF list = <<>> THEN Ok(<<>>)
    ELSE LET one == show_state_stats(o, t, Head(list))
             head == <<Printed("name", Head(list))>>
         IN  IF ~one.ok THEN Raised(head)
             ELSE LET rest == StatsEach(o, t, Tail(list))
                  IN  [ok |-> rest.ok, lines |-> head \o one.lines \o rest.lines]

\* the keys of groupby, in ascending order
RECURSIVE SortedNames(_)
SortedNames(rs) ==
    IF rs = {} THEN <<>>
    ELSE LET m == CHOOSE r \in rs : \A q \in rs \ {r} : StrLess(r, q)
         IN  <<m>> \o SortedNames(rs \ {m})

\* the label of one plotted line: the latest value, then the region
LineLabel(o, grp, y_col) ==
    IF o.norm THEN FormatFixed(Col(Last(grp), y_col), 3) \o <<" ">> \o Last(grp).Region
    ELSE FormatThousands(Truncated(Col(Last(grp), y_col))) \o <<" ">> \o Last(grp).Region

PlottedLine(o, grp, y_col) ==
    [label |-> LineLabel(o, grp, y_col),
     points |-> [i \in 1..Len(grp) |-> <<grp[i].Date, Col(grp[i], y_col)>>]]

\* the plotting half of plot_multi_states: one line per region of the selection
\* that has rows, in the order of the group keys
PlottedLines(o, t, list) ==
    LET listed == {list[i] : i \in 1..Len(list)}
        df4 == SelectSeq(t, LAMBDA r : r.Region \in listed)
        keys == SortedNames(RegionsOf(df4))
    IN  [column |-> choose_column(o), normalized |-> o.norm,
         lines |-> [i \in 1..Len(keys) |-> PlottedLine(o, RowsOf(df4, keys[i]), choose_column(o))]]

NoChart == [column |-> "", normalized |-> FALSE, lines |-> <<>>]

\* the tail of test(opts): "if opts['--multi']: plot ... else: for ... display"
Presented(sc, o, t, list) ==
    IF o.multi # ""
    THEN LET stats == StatsEach(o, t, list)
         IN  [ok |-> stats.ok, lines |-> stats.lines,
              chart |-> IF stats.ok THEN PlottedLines(o, t, list) ELSE NoChart]
    ELSE LET shown == DisplayEach(sc, o, t, list)
         IN  [ok |-> shown.ok, lines |-> shown.lines, chart |-> NoChart]

----------------------------------------------------------------------------
(* test(opts), step by step *)

ReadAndDerive ==
    /\ pc = "start"
    /\ df' = Derive(csv)
    /\ pc' = "derived"
    /\ UNCHANGED <<script, opts, csv, pops, names, out, chart>>

Smooth ==
    /\ pc = "derived"
    /\ df' = Smoothed(df)
    /\ pc' = "smoothed"
    /\ UNCHANGED <<script, opts, csv, pops, names, out, chart>>

JoinPopulations ==
    /\ pc = "smoothed"
    /\ df' = merge(script, KeepState(script, opts, df), pops)
    /\ pc' = "joined"
    /\ UNCHANGED <<script, opts, csv, pops, names, out, chart>>

Normalize ==
    /\ pc = "joined"
    /\ df' = Normalized(opts, df)
    /\ pc' = "normalized"
    /\ UNCHANGED <<script, opts, csv, pops, names, out, chart>>

SelectRegions ==
    /\ pc = "normalized"
    /\ names' \in get_state_list(opts, df, choose_column(opts))
    /\ pc' = "selected"
    /\ UNCHANGED <<script, opts, csv, pops, df, out, chart>>

FilterNoise ==
    /\ pc = "selected"
    /\ df' = FilterNoiseRows(opts, df)
    /\ pc' = "filtered"
    /\ UNCHANGED <<script, opts, csv, pops, names, out, chart>>

\* how the run can end once the lines are printed: an exception ends it; a chart
\* without a single line has date locators on an axis that holds no dates, which
\* plt.show() draws or rejects ("invalid Matplotlib date value") depending on the
\* matplotlib installed
Endings(o, p) ==
    IF ~p.ok THEN {"error"}
    ELSE IF o.multi # "" /\ p.chart.lines = <<>> THEN {"done", "error"}
    ELSE {"done"}

Present ==
    /\ pc = "filtered"
    /\ LET p == Presented(script, opts, df, names)
       IN  /\ out' = p.lines
           /\ chart' = p.chart
           /\ pc' \in Endings(opts, p)
    /\ UNCHANGED <<script, opts, csv, pops, df, names>>

Next ==
    \/ ReadAndDerive
    \/ Smooth
    \/ JoinPopulations
    \/ Normalize
    \/ SelectRegions
    \/ FilterNoise
    \/ Present

----------------------------------------------------------------------------
(* The input files the runs are checked on *)

\* the regions of the files: name, parent state ("" in us-states.csv), fips.
\* Listed in the order sort_values gives them.
StateUnits ==
    <<[region |-> <<"A">>, state |-> <<>>, fips |-> 4],
      [region |-> <<"B">>, state |-> <<>>, fips |-> 6],
      [region |-> <<"C">>, state |-> <<>>, fips |-> 48]>>

\* two counties of state P and a county of state Q that has the name of one of P
CountyUnits ==
    <<[region |-> <<"A">>, state |-> <<"P">>, fips |-> 6001],
      [region |-> <<"B">>, state |-> <<"P">>, fips |-> 6085],
      [region |-> <<"A">>, state |-> <<"Q">>, fips |-> 48001]>>

UnitsOf(sc) == IF sc = "states" THEN StateUnits ELSE CountyUnits

\* the file holding, for unit u, one row per day 1..Len(cells[u]) with the
\* cumulative cases cells[u][day]; a seventh of the cases have died
CsvOf(sc, cells) ==
    UNION {{[date |-> d, region |-> UnitsOf(sc)[u].region, state |-> UnitsOf(sc)[u].state,
             fips |-> UnitsOf(sc)[u].fips, cases |-> cells[u][d],
             deaths |-> cells[u][d] \div 7] : d \in 1..Len(cells[u])} :
           u \in DOMAIN cells}

SeriesOver(days, vals) == UNION {[1..n -> vals] : n \in days}
NonDecreasing(s) == \A i \in 1..(Len(s) - 1) : s[i] <= s[i + 1]
GrowingSeries(days, vals) == {s \in SeriesOver(days, vals) : NonDecreasing(s)}

\* three regions of up to ShortDays days, any counts (a cumulative count that
\* goes down is a correction of the source data)
ShortTables(sc) ==
    {CsvOf(sc, c) : c \in [1..3 -> SeriesOver(1..ShortDays, {1400 * k : k \in 0..MaxCount})]}

\* two regions with more days than the rolling window
LongTables(sc) ==
    {CsvOf(sc, c) : c \in [1..2 -> GrowingSeries((LongDays - 1)..LongDays, {0, 1400})]}

\* two regions of 5 consecutive days each: 10 rows
FiveDayTables(sc) ==
    {CsvOf(sc, c) : c \in [1..2 -> GrowingSeries({5}, {0, 3, 7})]}

RECURSIVE Ascending(_)
Ascending(ks) ==
    IF ks = {} THEN <<>>
    ELSE LET m == CHOOSE k \in ks : \A j \in ks : k <= j
         IN  <<m>> \o Ascending(ks \ {m})

\* the table get_populations() returns: the population popOf[u] of each unit u it
\* covers, under the key the script joins on
PopsOf(sc, popOf) ==
    LET us == Ascending(DOMAIN popOf)
    IN  [i \in 1..Len(us) |->
            [key |-> IF sc = "states" THEN UnitsOf(sc)[us[i]].region
                     ELSE UnitsOf(sc)[us[i]].fips,
             population |-> popOf[us[i]]]]

Scripts == {"states", "counties"}

Options(norm, lines, multi, sel, state) ==
    [norm |-> norm, lines |-> lines, multi |-> multi, sel |-> sel, state |-> state]

\* test(opts) is about to run on these files and options
Start(sc, table, p, o) ==
    /\ script = sc
    /\ csv = table
    /\ pops = p
    /\ opts = o
    /\ pc = "start"
    /\ df = <<>>
    /\ names = <<>>
    /\ out = <<>>
    /\ chart = NoChart

EveryPop == [u \in 1..3 |-> IF u = 2 THEN 7000 ELSE 2000]

InitDerive ==
    \E sc \in Scripts :
    \E table \in ShortTables(sc) \cup LongTables(sc) \cup FiveDayTables(sc) :
        Start(sc, table, PopsOf(sc, EveryPop),
              Options(FALSE, FALSE, "", <<"1">>, <<"P">>))

SpecDerive == InitDerive /\ [][Next]_vars

\* the characters the selector strings are made of
Alphabet == {"0", "2", ".", ",", " ", "A", "B"}
Strings(maxLen) == UNION {[1..n -> Alphabet] : n \in 0..maxLen}

\* two one-day tables that rank A and B in opposite orders
RankedEitherWay(sc) ==
    {CsvOf(sc, <<<<1400>>, <<2800>>>>), CsvOf(sc, <<<<2800>>, <<1400>>>>)}

InitSel ==
    \E table \in RankedEitherWay("states") :
    \E sel \in Strings(MaxLen) :
        Start("states", table, PopsOf("states", EveryPop),
              Options(FALSE, FALSE, "", sel, <<"P">>))

SpecSel == InitSel /\ [][Next]_vars

\* two regions of LongDays days each, the second with three levels of counts
TopTables(sc) ==
    {CsvOf(sc, <<a, b>>) :
        a \in GrowingSeries({LongDays}, {0, 1400}),
        b \in GrowingSeries({LongDays}, {1400 * k : k \in 0..(MaxCount + 1)})}

InitTop ==
    \E sc \in Scripts :
    \E table \in TopTables(sc) :
    \E multi \in {"c", "d", "C", "D"} :
    \E sel \in {<<"1">>, <<"2">>} :
        Start(sc, table, PopsOf(sc, EveryPop), Options(FALSE, FALSE, multi, sel, <<"P">>))

SpecTop == InitTop /\ [][Next]_vars

InitE2E ==
    \E sc \in Scripts :
    \E table \in FiveDayTables(sc) :
    \E lines \in BOOLEAN :
    \E multi \in {"", "C"} :
        Start(sc, table, PopsOf(sc, EveryPop), Options(FALSE, lines, multi, <<"2">>, <<"P">>))

SpecE2E == InitE2E /\ [][Next]_vars

InitPresent ==
    \E sc \in Scripts :
    \E table \in LongTables(sc) :
    \E norm \in BOOLEAN :
    \E lines \in BOOLEAN :
    \E sel \in {<<"B">>, <<"2">>, <<"A", ",", "B">>} :
        Start(sc, table, PopsOf(sc, EveryPop), Options(norm, lines, "", sel, <<"P">>))

SpecPresent == InitPresent /\ [][Next]_vars

\* two regions of up to MaxDays days each, counts that never go down
GrowingTables(sc) ==
    {CsvOf(sc, c) : c \in [1..2 -> GrowingSeries(1..MaxDays, {1400 * k : k \in 0..MaxCount})]}

InitNorm ==
    \E sc \in Scripts :
    \E table \in GrowingTables(sc) :
    \E norm \in BOOLEAN :
        Start(sc, table, PopsOf(sc, EveryPop), Options(norm, FALSE, "", <<"1">>, <<"P">>))

SpecNorm == InitNorm /\ [][Next]_vars

\* two regions of up to RankDays days, counts in steps of 50; one of the two has
\* ten times the population of the other
RankTables(sc) ==
    {CsvOf(sc, c) : c \in [1..2 -> GrowingSeries(1..RankDays, {50 * k : k \in 0..RankCount})]}

InitRank ==
    \E sc \in Scripts :
    \E table \in RankTables(sc) :
    \E popOf \in {<<1000, 10000>>, <<10000, 1000>>} :
    \E norm \in BOOLEAN :
        Start(sc, table, PopsOf(sc, popOf), Options(norm, FALSE, "", <<"1">>, <<"P">>))

SpecRank == InitRank /\ [][Next]_vars

\* two regions of MaxDays days each
FullTables(sc) ==
    {CsvOf(sc, c) : c \in [1..2 -> GrowingSeries({MaxDays}, {1400 * k : k \in 0..MaxCount})]}

\* the population file covers no region, the first region, or both
Coverages == {<<>>, <<2000>>, <<2000, 7000>>}

InitEmpty ==
    \E sc \in Scripts :
    \E table \in FullTables(sc) :
    \E popOf \in Coverages :
    \E norm \in BOOLEAN :
    \E multi \in {"", "C"} :
    \E sel \in {<<"1">>, <<"A">>, <<"-", "1">>} :
        Start(sc, table, PopsOf(sc, popOf), Options(norm, FALSE, multi, sel, <<"P">>))

SpecEmpty == InitEmpty /\ [][Next]_vars

----------------------------------------------------------------------------
(* Deriver: daily deltas and their smoothing *)

\* a region is a State, or a County of a state
RegionKeys(t) == {<<t[i].state, t[i].Region>> : i \in 1..Len(t)}
SeriesOfKey(t, key) == SelectSeq(t, LAMBDA r : r.state = key[1] /\ r.Region = key[2])

\* the first difference of a region's own cumulative counts, 0 at its first date
OwnDelta(series, k, column) ==
    IF k = 1 THEN 0
    ELSE Col(series[k], column).n - Col(series[k - 1], column).n

RECURSIVE OwnDeltaSum(_, _, _, _)
OwnDeltaSum(series, lo, hi, column) ==
    IF lo > hi THEN 0
    ELSE OwnDelta(series, lo, column) + OwnDeltaSum(series, lo + 1, hi, column)

\* C1: once the daily deltas are computed, in every region of the table the
\* delta (cases and deaths) of the region's first row is 0 and the delta of each
\* later row is its cumulative count minus that of the previous date of the same
\* region, whatever regions come before it in the sorted table.
C1_DeltaWithinRegion ==
    pc = "derived" =>
        \A key \in RegionKeys(df) :
            LET series == SeriesOfKey(df, key)
            IN  \A k \in 1..Len(series) :
                    /\ series[k].daily_cases = Num(OwnDelta(series, k, "total cases"))
                    /\ series[k].daily_deaths = Num(OwnDelta(series, k, "total deaths"))

\* C2: once smoothed, in every region's date-ordered series the daily value at
\* 0-based position k is NaN for k < 6 and, for k >= 6, the sum of the region's
\* own last 7 daily deltas over 7; no window reaches into another region.
C2_SmoothingWithinRegion ==
    pc = "smoothed" =>
        \A key \in RegionKeys(df) :
            LET series == SeriesOfKey(df, key)
            IN  \A k \in 1..Len(series) :
                    IF k < Window
                    THEN IsNaN(series[k].daily_cases) /\ IsNaN(series[k].daily_deaths)
                    ELSE /\ series[k].daily_cases =
                              Rat(OwnDeltaSum(series, k - Window + 1, k, "total cases"), Window)
                         /\ series[k].daily_deaths =
                              Rat(OwnDeltaSum(series, k - Window + 1, k, "total deaths"), Window)

----------------------------------------------------------------------------
(* Selector: the two paths *)

\* the text between the surrounding blanks of s
Trimmed(s) ==
    LET inked == {i \in 1..Len(s) : s[i] # " "}
    IN  IF inked = {} THEN <<>>
        ELSE SubSeq(s, CHOOSE i \in inked : \A j \in inked : i <= j,
                       CHOOSE i \in inked : \A j \in inked : i >= j)

\* s is the text of an integer: digits, after an optional sign, between blanks
IsIntegerText(s) ==
    LET t == Trimmed(s)
        signed == t # <<>> /\ t[1] \in {"-", "+"}
        first == IF signed THEN 2 ELSE 1
    IN  /\ Len(t) >= first
        /\ \A i \in first..Len(t) : IsDigit(t[i])

RECURSIVE NumberRead(_, _, _)
NumberRead(t, i, acc) ==
    IF i > Len(t) THEN acc
    ELSE NumberRead(t, i + 1, IF IsDigit(t[i]) THEN 10 * acc + DigitValue(t[i]) ELSE acc)

\* the integer an integer text stands for
IntegerOf(s) ==
    IF Trimmed(s)[1] = "-" THEN 0 - NumberRead(Trimmed(s), 1, 0)
    ELSE NumberRead(Trimmed(s), 1, 0)

CommasOf(s) == {i \in 1..Len(s) : s[i] = ","}

\* the position of the k-th comma of s; 0 before the first token, Len(s) + 1
\* after the last
CommaAt(s, k) ==
    IF k = 0 THEN 0
    ELSE IF k > Cardinality(CommasOf(s)) THEN Len(s) + 1
    ELSE CHOOSE i \in CommasOf(s) : Cardinality({j \in CommasOf(s) : j <= i}) = k

\* the k-th comma-separated token of s, without its surrounding blanks
TokenOf(s, k) == Trimmed(SubSeq(s, CommaAt(s, k - 1) + 1, CommaAt(s, k) - 1))

TokensOf(s) == [k \in 1..(Cardinality(CommasOf(s)) + 1) |-> TokenOf(s, k)]

\* C8: for every selector string that is not the text of an integer, malformed
\* numbers ("2.2") and the empty string among them, the selection is exactly the
\* comma-separated tokens of the string, each without its surrounding blanks, in
\* the user's order, duplicates kept, whatever the table holds.
C8_ExplicitListIsTheTokens ==
    pc = "selected" =>
        /\ ~IsIntegerText(opts.sel) => names = TokensOf(opts.sel)
        /\ opts.sel = <<>> => names = <<<<>>>>
        /\ opts.sel = <<"2", ".", "2">> => names = <<<<"2", ".", "2">>>>
        /\ opts.sel = <<"B", ",", " ", "A">> => names = <<<<"B">>, <<"A">>>>

\* C8 witness: "B, A" was resolved to [B, A] on a table that ranks A first
C8_Witness ==
    /\ pc = "selected"
    /\ opts.sel = <<"B", ",", " ", "A">>
    /\ names = <<<<"B">>, <<"A">>>>
    /\ \E i \in 1..Len(df) : df[i].Region = <<"A">> /\ df[i].total_cases = Num(2800)

\* C9: every selector string that is the text of an integer N >= 0, "0" included,
\* is taken as top-N: the selection holds only regions of the joined table, has at
\* most N entries, and never holds the input string itself as a region name.
C9_IntegerMeansTopN ==
    (pc = "selected" /\ IsIntegerText(opts.sel) /\ IntegerOf(opts.sel) >= 0) =>
        /\ \A i \in 1..Len(names) : names[i] \in RegionsOf(df)
        /\ Len(names) <= IntegerOf(opts.sel)
        /\ \A i \in 1..Len(names) : names[i] # Trimmed(opts.sel)

----------------------------------------------------------------------------
(* Selector: top N *)

\* the value of the column on the region's most recent date in the table
LatestOf(t, region, column) == Col(Last(RowsOf(t, region)), column)

\* region a ranks at least as high as region b by latest value, a region without a
\* latest value (NaN) ranking lowest
RanksAtLeast(t, column, a, b) ==
    \/ IsNaN(LatestOf(t, b, column))
    \/ NumGe(LatestOf(t, a, column), LatestOf(t, b, column))

Selected == {names[i] : i \in 1..Len(names)}

\* no two regions share the largest value of the column: the order of the regions
\* in the sorted table does not depend on how the sort orders equal values
PeaksDiffer(t, column) ==
    \A a, b \in RegionsOf(t) :
        a # b => ~SameCell(PeakOf(t, a, column), PeakOf(t, b, column))

\* C3: for a selector that is the text of an integer N >= 1 and any metric column,
\* the selection is min(N, number of regions) regions, each once, in descending
\* order of the value the metric has on the region's most recent date, and no
\* region left out has a higher latest value than a region selected.  Stated for
\* the tables in which no two regions share their largest value.
C3_TopNByLatestValue ==
    (/\ pc = "selected"
     /\ IsIntegerText(opts.sel)
     /\ IntegerOf(opts.sel) >= 1
     /\ PeaksDiffer(df, choose_column(opts))) =>
        LET column == choose_column(opts)
            n == IF IntegerOf(opts.sel) < Cardinality(RegionsOf(df))
                 THEN IntegerOf(opts.sel) ELSE Cardinality(RegionsOf(df))
        IN  /\ Len(names) = n
            /\ Selected \subseteq RegionsOf(df)
            /\ \A i, j \in 1..Len(names) : i # j => names[i] # names[j]
            /\ \A i, j \in 1..Len(names) :
                    i < j => RanksAtLeast(df, column, names[i], names[j])
            /\ \A r \in RegionsOf(df) \ Selected : \A i \in 1..Len(names) :
                    RanksAtLeast(df, column, names[i], r)

----------------------------------------------------------------------------
(* Presenter: what a run prints *)

Finished == pc \in {"done", "error"}

\* the region a printed header names: the county header also carries the fips,
\* 8 wide after a blank
HeaderRegion(item) ==
    IF script = "counties" /\ opts.multi = ""
    THEN SubSeq(item.text, 1, Len(item.text) - 9)
    ELSE item.text

\* the texts printed under the given kind below a header of the region
PrintedFor(region, kind) ==
    {out[j].text : j \in {k \in 1..Len(out) :
        /\ out[k].kind = kind
        /\ \E h \in 1..(k - 1) :
               /\ out[h].kind = "name"
               /\ HeaderRegion(out[h]) = region
               /\ \A m \in (h + 1)..(k - 1) : out[m].kind # "name"}}

\* the rows of the file the run is about: all of them (states), those of the
\* requested state (counties)
Loaded == {r \in csv : script = "counties" => r.state = opts.state}
LoadedRegions == {r.region : r \in Loaded}
LatestLoaded(region) ==
    CHOOSE r \in Loaded : r.region = region /\
        \A q \in Loaded : q.region = region => q.date <= r.date

\* C4: a run on a 10-row table of 2 regions with 5 days each, populations for
\* both, normalization off and selector "2" completes without error, selects
\* both regions and prints, for each, total cases and total deaths as
\* thousands-grouped integers equal to the cumulative counts of its last row.
C4_EndToEnd ==
    Finished =>
        /\ pc = "done"
        /\ Selected = LoadedRegions
        /\ \A region \in LoadedRegions :
              /\ PrintedFor(region, "total cases") =
                    {FormatThousands(LatestLoaded(region).cases)}
              /\ PrintedFor(region, "total deaths") =
                    {FormatThousands(LatestLoaded(region).deaths)}

PopulationOf(region) ==
    LET u == CHOOSE u \in 1..Len(UnitsOf(script)) :
                 /\ UnitsOf(script)[u].region = region
                 /\ script = "counties" => UnitsOf(script)[u].state = opts.state
    IN  EveryPop[u]

\* the text the latest cumulative count of a region is printed as
TotalText(count, region) ==
    IF opts.norm THEN FormatFixed(Rat(100 * count, PopulationOf(region)), 2) \o <<" ", "%">>
    ELSE FormatThousands(count)

\* C5: in per-region mode a run prints, for every selected region of the data,
\* the total cases and total deaths of the region's most recent row of the loaded
\* data, with the listing toggle set or not.  Stated for the runs that complete.
C5_LatestTotalsPrinted ==
    (pc = "done" /\ opts.multi = "") =>
        \A region \in Selected \cap LoadedRegions :
            /\ PrintedFor(region, "total cases") =
                  {TotalText(LatestLoaded(region).cases, region)}
            /\ PrintedFor(region, "total deaths") =
                  {TotalText(LatestLoaded(region).deaths, region)}

----------------------------------------------------------------------------
(* Normalizer *)

\* y is x as a percentage of the population: y = 100 * x / population, NaN for NaN
IsPercentOf(y, x, population) ==
    \/ IsNaN(x) /\ IsNaN(y)
    \/ ~IsNaN(x) /\ ~IsNaN(y) /\ y.n * x.d * population = 100 * x.n * y.d

\* the place of a row of df in raw, the sorted table of all the rows of the file
PlaceInFile(raw, r) ==
    CHOOSE p \in 1..Len(raw) :
        /\ raw[p].state = r.state
        /\ raw[p].Region = r.Region
        /\ raw[p].Date = r.Date

\* the 7-point smoothing of the raw deltas at a place of the sorted table
RawSmoothed(raw, p, column) ==
    IF p < Window THEN NaN
    ELSE [n |-> SumCol(raw, p - Window + 1, p, column), d |-> Window]

\* C6: the normalizing step turns each of the four metric columns of every row
\* into 100 * v / population, v being the value the row has without --norm and
\* population the joined population of the row's region; the normalized daily
\* columns are the smoothing of the raw deltas, rescaled afterwards; without
\* --norm the step leaves the four columns as they are.
C6_NormalizeRescales ==
    [][(pc = "joined" /\ pc' = "normalized") =>
        LET raw == Derive(csv) IN
        /\ Len(df') = Len(df)
        /\ \A i \in 1..Len(df) :
              /\ df'[i].Region = df[i].Region
              /\ df'[i].Date = df[i].Date
              /\ df'[i].population = df[i].population
              /\ \A column \in MetricColumns :
                    IF opts.norm
                    THEN IsPercentOf(Col(df'[i], column), Col(df[i], column),
                                     df[i].population)
                    ELSE Col(df'[i], column) = Col(df[i], column)
              /\ opts.norm =>
                    \A column \in {"daily cases", "daily deaths"} :
                        IsPercentOf(Col(df'[i], column),
                                    RawSmoothed(raw, PlaceInFile(raw, df[i]), column),
                                    df[i].population)]_vars

\* C6 witness: a normalized row of region B whose window reaches into region A,
\* of another population: 1400 new cases in the window, 20/7 % of 7000 a day
C6_Witness ==
    /\ pc = "normalized"
    /\ opts.norm
    /\ \E i \in 1..Len(df) :
          /\ df[i].Region = <<"B">>
          /\ df[i].population = 7000
          /\ df[i].Date < Window
          /\ df[i].daily_cases = [n |-> 20, d |-> 7]
          /\ df[i].total_cases = [n |-> 20, d |-> 1]

----------------------------------------------------------------------------
(* Top N after normalization *)

\* the population the population file gives a unit
JoinedPopulation(u) ==
    LET i == CHOOSE i \in 1..Len(pops) :
                 pops[i].key = (IF script = "states" THEN UnitsOf(script)[u].region
                                ELSE UnitsOf(script)[u].fips)
    IN  pops[i].population

\* region A has 100 total cases and 1000 inhabitants, region B 150 and 10000
TheExample ==
    /\ LatestLoaded(<<"A">>).cases = 100
    /\ LatestLoaded(<<"B">>).cases = 150
    /\ JoinedPopulation(1) = 1000
    /\ JoinedPopulation(2) = 10000
    /\ opts.sel = <<"1">>
    /\ choose_column(opts) = "total cases"

\* some row of region a holds a value that no row of region b exceeds, in the
\* table as it stands
Outranks(t, column, a, b) ==
    \E i \in 1..Len(t) :
        /\ t[i].Region = a
        /\ \A j \in 1..Len(t) : t[j].Region = b => NumGe(Col(t[i], column), Col(t[j], column))

\* C7: top N is computed on the table as it stands after normalization: the
\* regions selected are in the order of its values and outrank the regions left
\* out; in the example, selector "1" on total cases gives [B] without --norm and
\* [A] with --norm.
C7_RankingAfterNormalization ==
    pc = "selected" =>
        /\ \A i, j \in 1..Len(names) :
               i < j => Outranks(df, choose_column(opts), names[i], names[j])
        /\ \A r \in RegionsOf(df) \ Selected : \A i \in 1..Len(names) :
               Outranks(df, choose_column(opts), names[i], r)
        /\ TheExample => names = (IF opts.norm THEN <<<<"A">>>> ELSE <<<<"B">>>>)

\* C7 witness: the example with --norm, A selected
C7_Witness ==
    /\ pc = "selected"
    /\ TheExample
    /\ opts.norm
    /\ names = <<<<"A">>>>
    /\ \E i \in 1..Len(df) : df[i].Region = <<"B">> /\ df[i].total_cases = [n |-> 3, d |-> 2]

----------------------------------------------------------------------------
(* An empty table *)

\* some loaded row has a population match: the join is not empty
JoinNotEmpty ==
    \E r \in Loaded : \E i \in 1..Len(pops) :
        pops[i].key = (IF script = "states" THEN r.region ELSE r.fips)

\* C10 as claimed: whenever the table is empty after the population join and the
\* filtering steps, the run ends in an uncaught error, in both selector modes and
\* both presenter modes.
C10_EmptyTableIsFatal ==
    (Finished /\ df = <<>>) => pc = "error"

\* C10 amended: with the table empty after the join and the filtering steps, the
\* run ends in an uncaught error whenever the selection is not empty, in both
\* presenter modes; the selection is not empty for an explicit list and for an
\* integer top N >= 1 over a join that is not empty; with an empty selection the
\* per-region run completes and prints nothing.
C10_EmptyTableFatalWhenSelected ==
    (Finished /\ df = <<>>) =>
        /\ names # <<>> => pc = "error"
        /\ ~IsIntegerText(opts.sel) => names # <<>>
        /\ (IsIntegerText(opts.sel) /\ IntegerOf(opts.sel) >= 1 /\ JoinNotEmpty)
               => names # <<>>
        /\ (names = <<>> /\ opts.multi = "") => (pc = "done" /\ out = <<>>)

\* C10 witness: top N in multi mode over a join the noise filter emptied
C10_Witness ==
    /\ pc = "error"
    /\ df = <<>>
    /\ opts.sel = <<"1">>
    /\ opts.multi = "C"
    /\ JoinNotEmpty
    /\ names # <<>>

====
